---- MODULE Spec2Model ----
(***************************************************************************)
(* Metrics providers of flagger: the provider factory, the Datadog client  *)
(* and the CloudWatch client.                                              *)
(*                                                                         *)
(* Every operation of the package is a synchronous call.  The state keeps  *)
(* the provider that construction produced, and the name, the inputs and   *)
(* the results of the call that completed last.                            *)
(*                                                                         *)
(* Go values are modelled as follows.                                      *)
(*   string   a TLA+ string when it is only compared, a sequence of        *)
(*            one-character strings when the code looks inside it          *)
(*   error    [msg, args]: the format of fmt.Errorf and the values it      *)
(*            formats into the text; NilErr is the nil error               *)
(*   *T       [type, nil] or [type, nil, obj]                              *)
(*   Interface  [dyn] with dyn = "none" for the nil interface, else        *)
(*            [dyn, ptr]: the dynamic type and the pointer it holds        *)
(***************************************************************************)
EXTENDS Integers, Sequences, FiniteSets, TLC

VARIABLES
    op,      \* the call that completed last
    arg,     \* its inputs
    ret,     \* its results
    client,  \* the provider the caller holds: the pointer that the last
             \* construction returned without an error
    sent     \* requests the call handed to its backend (HTTP or GetMetricData)

vars == <<op, arg, ret, client, sent>>

-----------------------------------------------------------------------------
(* Go values *)

NilErr == [msg |-> "nil", args |-> <<>>]

Errorf(m, a) == [msg |-> m, args |-> a]

IsNilErr(e) == e.msg = "nil"

NilPtr(T) == [type |-> T, nil |-> TRUE]

Ptr(T, o) == [type |-> T, nil |-> FALSE, obj |-> o]

NilInterface == [dyn |-> "none"]

\* Assigning a pointer to an Interface result: the interface value holds the
\* dynamic type and the pointer, whether or not the pointer is nil.
ToInterface(p) == [dyn |-> p.type, ptr |-> p]

IsNilInterface(i) == i.dyn = "none"

\* What a constructor hands back: (client, err), or a run-time panic.
Built(c, e) == [outcome |-> "return", client |-> c, err |-> e]

BuildPanicked == [outcome |-> "panic", client |-> NilPtr("none"), err |-> NilErr]

SeqsUpTo(S, n) == UNION {[1..k -> S] : k \in 0..n}

\* The set of the characters of s.
Chars(s) == {s[i] : i \in 1..Len(s)}

-----------------------------------------------------------------------------
(* time.ParseDuration and time.Duration, as newDatadogProvider uses them.   *)
(* A Duration is [neg, sec, nsec]: its sign, whole seconds and the          *)
(* remaining nanoseconds of its magnitude.                                  *)

NanosPerSecond == 1000000000

Digits == {"0", "1", "2", "3", "4", "5", "6", "7", "8", "9"}

DigitValue(c) ==
    CASE c = "0" -> 0 [] c = "1" -> 1 [] c = "2" -> 2 [] c = "3" -> 3
      [] c = "4" -> 4 [] c = "5" -> 5 [] c = "6" -> 6 [] c = "7" -> 7
      [] c = "8" -> 8 [] c = "9" -> 9

\* unitMap of package time: the length of each unit as [sec, nsec].
UnitNames == {<<"n", "s">>, <<"u", "s">>, <<"m", "s">>, <<"s">>, <<"m">>, <<"h">>}

UnitLength(u) ==
    CASE u = <<"n", "s">> -> [sec |-> 0, nsec |-> 1]
      [] u = <<"u", "s">> -> [sec |-> 0, nsec |-> 1000]
      [] u = <<"m", "s">> -> [sec |-> 0, nsec |-> 1000000]
      [] u = <<"s">>      -> [sec |-> 1, nsec |-> 0]
      [] u = <<"m">>      -> [sec |-> 60, nsec |-> 0]
      [] u = <<"h">>      -> [sec |-> 3600, nsec |-> 0]

\* The number of leading characters of s that are digits.
RECURSIVE DigitRun(_)
DigitRun(s) ==
    IF s # <<>> /\ Head(s) \in Digits THEN 1 + DigitRun(Tail(s)) ELSE 0

\* The number of leading characters of s that are neither '.' nor a digit.
RECURSIVE UnitRun(_)
UnitRun(s) ==
    IF s # <<>> /\ Head(s) \notin Digits \cup {"."} THEN 1 + UnitRun(Tail(s)) ELSE 0

\* The value of a run of digits.
RECURSIVE DigitsValue(_)
DigitsValue(s) ==
    IF s = <<>> THEN 0
    ELSE 10 * DigitsValue(SubSeq(s, 1, Len(s) - 1)) + DigitValue(s[Len(s)])

RECURSIVE Pow10(_)
Pow10(n) == IF n = 0 THEN 1 ELSE 10 * Pow10(n - 1)

Normalize(sec, nsec) ==
    [sec |-> sec + (nsec \div NanosPerSecond), nsec |-> nsec % NanosPerSecond]

\* v * unit + f * (unit / scale), in nanoseconds, as [sec, nsec].
GroupLength(v, f, scale, unit) ==
    LET whole  == Normalize(v * unit.sec, v * unit.nsec)
        fsec   == (f * unit.sec) \div scale
        frem   == (f * unit.sec) % scale
        fnsec  == frem * (NanosPerSecond \div scale) + ((f * unit.nsec) \div scale)
    IN  Normalize(whole.sec + fsec, whole.nsec + fnsec)

\* The loop of ParseDuration over the groups  digits [. digits] unit :
\* [ok, sec, nsec].
RECURSIVE ParseGroups(_, _)
ParseGroups(s, acc) ==
    IF s = <<>> THEN [ok |-> TRUE, sec |-> acc.sec, nsec |-> acc.nsec]
    ELSE
      LET pre    == DigitRun(s)
          s1     == SubSeq(s, pre + 1, Len(s))
          dot    == s1 # <<>> /\ Head(s1) = "."
          s2     == IF dot THEN Tail(s1) ELSE s1
          post   == IF dot THEN DigitRun(s2) ELSE 0
          s3     == SubSeq(s2, post + 1, Len(s2))
          ulen   == UnitRun(s3)
          u      == SubSeq(s3, 1, ulen)
          rest   == SubSeq(s3, ulen + 1, Len(s3))
          v      == DigitsValue(SubSeq(s, 1, pre))
          f      == DigitsValue(SubSeq(s2, 1, post))
          bad    == [ok |-> FALSE, sec |-> 0, nsec |-> 0]
      IN  IF Head(s) \notin Digits \cup {"."} THEN bad
          ELSE IF pre = 0 /\ post = 0 THEN bad
          ELSE IF ulen = 0 THEN bad
          ELSE IF u \notin UnitNames THEN bad
          ELSE LET g == GroupLength(v, f, Pow10(post), UnitLength(u))
               IN  ParseGroups(rest, Normalize(acc.sec + g.sec, acc.nsec + g.nsec))

\* time.ParseDuration: [ok, d].
ParseDuration(str) ==
    LET signed == str # <<>> /\ Head(str) \in {"-", "+"}
        neg    == signed /\ Head(str) = "-"
        s      == IF signed THEN Tail(str) ELSE str
        zero   == [neg |-> FALSE, sec |-> 0, nsec |-> 0]
    IN  IF s = <<"0">> THEN [ok |-> TRUE, d |-> zero]
        ELSE IF s = <<>> THEN [ok |-> FALSE, d |-> zero]
        ELSE LET p == ParseGroups(s, [sec |-> 0, nsec |-> 0])
             IN  IF p.ok
                 THEN [ok |-> TRUE,
                       d |-> [neg |-> neg /\ (p.sec # 0 \/ p.nsec # 0),
                              sec |-> p.sec, nsec |-> p.nsec]]
                 ELSE [ok |-> FALSE, d |-> zero]

\* The product rounded down instead of towards zero.
FlooredMultiple(k, d) ==
    LET n == k * d.sec + (d.nsec \div (NanosPerSecond \div k))
    IN  IF ~d.neg THEN n
        ELSE IF d.nsec % (NanosPerSecond \div k) = 0 THEN 0 - n ELSE 0 - n - 1

\* int64(k * d.Seconds()) for a k that divides NanosPerSecond: Seconds() is
\* sec + nsec/1e9, and the conversion to int64 drops the fraction of the
\* product (towards zero).
TruncatedMultiple(k, d) ==
    LET n == k * d.sec + (d.nsec \div (NanosPerSecond \div k))
    IN  IF d.neg THEN 0 - n ELSE n

-----------------------------------------------------------------------------
(* pkg/metrics/providers/datadog.go *)

datadogDefaultHost == "https://api.datadoghq.com"

datadogMetricsQueryPath == "/api/v1/query"

datadogAPIKeyValidationPath == "/api/v1/validate"

datadogAPIKeySecretKey == "datadog_api_key"

datadogAPIKeyHeaderKey == "DD-API-KEY"

datadogApplicationKeySecretKey == "datadog_application_key"

datadogApplicationKeyHeaderKey == "DD-APPLICATION-KEY"

datadogFromDeltaMultiplierOnMetricInterval == 10

DatadogTimeoutSeconds == 5

StatusOK == 200

\* ok of  b, ok := credentials[key]
HasKey(credentials, key) == key \in DOMAIN credentials

\* The checks in the other order.
MissingCredentialApplicationFirst(credentials) ==
    IF ~(datadogApplicationKeySecretKey \in DOMAIN credentials)
    THEN datadogApplicationKeySecretKey
    ELSE IF ~(datadogAPIKeySecretKey \in DOMAIN credentials)
    THEN datadogAPIKeySecretKey
    ELSE ""

\* The credential checks of newDatadogProvider, in their order: the secret
\* key whose absence ends construction, "" when both keys are there.
MissingCredential(credentials) ==
    IF ~HasKey(credentials, datadogAPIKeySecretKey)
    THEN datadogAPIKeySecretKey
    ELSE IF ~HasKey(credentials, datadogApplicationKeySecretKey)
    THEN datadogApplicationKeySecretKey
    ELSE ""

\* dd.fromDelta = int64(datadogFromDeltaMultiplierOnMetricInterval * md.Seconds())
FromDelta(md) == TruncatedMultiple(datadogFromDeltaMultiplierOnMetricInterval, md)

\* newDatadogProvider: (client, err), client a *datadogProvider.
newDatadogProvider(metricInterval, address, credentials) ==
    LET addr    == IF address = "" THEN datadogDefaultHost ELSE address
        missing == MissingCredential(credentials)
        md      == ParseDuration(metricInterval)
        obj  == [metricsQueryEndpoint     |-> <<addr, datadogMetricsQueryPath>>,
                 apiKeyValidationEndpoint |-> <<addr, datadogAPIKeyValidationPath>>,
                 timeout        |-> DatadogTimeoutSeconds,
                 apiKey         |-> credentials[datadogAPIKeySecretKey],
                 applicationKey |-> credentials[datadogApplicationKeySecretKey],
                 fromDelta      |-> FromDelta(md.d)]
    IN  IF missing # ""
        THEN Built(NilPtr("datadogProvider"),
                   Errorf("datadog credentials does not contain", <<missing>>))
        ELSE IF ~md.ok
        THEN Built(NilPtr("datadogProvider"),
                   Errorf("error parsing metric interval: %s", <<metricInterval>>))
        ELSE Built(Ptr("datadogProvider", obj), NilErr)

\* url.Parse inside http.NewRequest: the addresses it rejects.
MalformedAddress == "http://%zz"

URLParses(endpoint) == endpoint[1] # MalformedAddress

\* json.Unmarshal(b, &res) with res a datadogResponse: [err, Series].
\*   malformed  b is not JSON
\*   mismatch   b is JSON that does not fit the type (a series that is a string, ...)
\*   null       b is the JSON null: res stays the zero value
\*   object     b is an object; without a "series" member Series stays nil
UnmarshalDatadogResponse(b) ==
    CASE b.kind = "malformed" -> [err |-> TRUE, Series |-> <<>>]
      [] b.kind = "mismatch"  -> [err |-> TRUE, Series |-> <<>>]
      [] b.kind = "null"      -> [err |-> FALSE, Series |-> <<>>]
      [] b.kind = "object"    ->
            [err |-> FALSE, Series |-> IF b.has THEN b.series ELSE <<>>]

Returned(v, e) == [outcome |-> "return", v |-> v, err |-> e]

\* A run-time panic of the Go runtime (index out of range) ends the call.
Panicked == [outcome |-> "panic", v |-> 0, err |-> NilErr]

\* The request RunQuery builds for http.DefaultClient.Do.
DatadogQueryRequest(p, query, now) ==
    [method  |-> "GET",
     url     |-> p.metricsQueryEndpoint,
     headers |-> (datadogAPIKeyHeaderKey :> p.apiKey)
                    @@ (datadogApplicationKeyHeaderKey :> p.applicationKey),
     params  |-> [query |-> query, from |-> now - p.fromDelta, to |-> now],
     timeout |-> p.timeout]

\* The first point instead of the last.
FirstIndex(pointlist) == IF pointlist = <<>> THEN 0 ELSE 1

\* The index of the point RunQuery reads: s.Pointlist[len(s.Pointlist)-1].
LastIndex(pointlist) == Len(pointlist)

\* The element of the point RunQuery returns: vs[1], the second one.
ValueIndex == 2

\* The guard before the point is read: len(vs) < 1.
PointTooShort(vs) == Len(vs) < 1

\* The part of RunQuery after the response is decoded.
LastValue(res, b) ==
    IF Len(res.Series) < 1
    THEN Returned(0, Errorf("no values found in response: %s", <<b>>))
    ELSE LET s == res.Series[1]
         IN  IF LastIndex(s) \notin 1..Len(s) THEN Panicked
             ELSE LET vs == s[LastIndex(s)]
                  IN  IF PointTooShort(vs)
                      THEN Returned(0, Errorf("no values found in response: %s", <<b>>))
                      ELSE IF ValueIndex \notin 1..Len(vs) THEN Panicked
                      ELSE Returned(vs[ValueIndex], NilErr)

\* datadogProvider.RunQuery, given the outcome x of the HTTP exchange:
\*   x.kind = "unsent"   no request is sent
\*   x.kind = "doErr"    Do returns an error (connection failure, timeout)
\*   x.kind = "readErr"  the response arrives and reading its body fails
\*   x.kind = "resp"     the response x.status, x.body is received
DatadogRunQuery(p, query, x) ==
    IF ~URLParses(p.metricsQueryEndpoint)
    THEN Returned(0, Errorf("error http.NewRequest: %s", <<"parse">>))
    ELSE IF x.kind = "doErr" THEN Returned(0, Errorf("transport", <<>>))
    ELSE IF x.kind = "readErr"
    THEN Returned(0, Errorf("error reading body: %s", <<"read">>))
    ELSE IF x.status # StatusOK
    THEN Returned(0, Errorf("error response: %s", <<x.body>>))
    ELSE LET res == UnmarshalDatadogResponse(x.body)
         IN  IF res.err
             THEN Returned(0, Errorf("error unmarshaling result: %s, '%s'",
                                     <<"json", x.body>>))
             ELSE LastValue(res, x.body)

\* IsOnline with an error that leaves the body out.
DatadogIsOnlineWithoutBody(p, x) ==
    IF ~URLParses(p.apiKeyValidationEndpoint)
    THEN Returned(FALSE, Errorf("error http.NewRequest: %s", <<"parse">>))
    ELSE IF x.kind = "doErr" THEN Returned(FALSE, Errorf("transport", <<>>))
    ELSE IF x.kind = "readErr"
    THEN Returned(FALSE, Errorf("error reading body: %s", <<"read">>))
    ELSE IF x.status # StatusOK
    THEN Returned(FALSE, Errorf("error response", <<>>))
    ELSE Returned(TRUE, NilErr)

\* datadogProvider.IsOnline, given the outcome x of the HTTP exchange.
DatadogIsOnline(p, x) ==
    IF ~URLParses(p.apiKeyValidationEndpoint)
    THEN Returned(FALSE, Errorf("error http.NewRequest: %s", <<"parse">>))
    ELSE IF x.kind = "doErr" THEN Returned(FALSE, Errorf("transport", <<>>))
    ELSE IF x.kind = "readErr"
    THEN Returned(FALSE, Errorf("error reading body: %s", <<"read">>))
    ELSE IF x.status # StatusOK
    THEN Returned(FALSE, Errorf("error response: %s", <<x.body>>))
    ELSE Returned(TRUE, NilErr)

\* The request IsOnline builds.
DatadogValidateRequest(p) ==
    [method  |-> "GET",
     url     |-> p.apiKeyValidationEndpoint,
     headers |-> (datadogAPIKeyHeaderKey :> p.apiKey)
                    @@ (datadogApplicationKeyHeaderKey :> p.applicationKey),
     timeout |-> p.timeout]

-----------------------------------------------------------------------------
(* cloudwatch.go *)

cloudWatchMaxRetries == 3

StatusBadRequest == 400

\* strings.TrimLeft(s, cutset): s without its leading characters that occur
\* in cutset.
RECURSIVE TrimLeft(_, _)
TrimLeft(s, cutset) ==
    IF s # <<>> /\ Head(s) \in Chars(cutset) THEN TrimLeft(Tail(s), cutset) ELSE s

\* strings.TrimRight(s, cutset): s without its trailing characters that
\* occur in cutset.
RECURSIVE TrimRight(_, _)
TrimRight(s, cutset) ==
    IF s # <<>> /\ s[Len(s)] \in Chars(cutset)
    THEN TrimRight(SubSeq(s, 1, Len(s) - 1), cutset)
    ELSE s

MonitoringPrefix == <<"m", "o", "n", "i", "t", "o", "r", "i", "n", "g", ".">>

AmazonawsSuffix ==
    <<".", "a", "m", "a", "z", "o", "n", "a", "w", "s", ".", "c", "o", "m">>

\* The region newCloudWatchProvider gives the session.
Region(address) == TrimRight(TrimLeft(address, MonitoringPrefix), AmazonawsSuffix)

\* newCloudWatchProvider, given what session.NewSession and cloudwatch.New do:
\*   "ok"        NewSession returns a session and no error
\*   "errClient" NewSession returns an error, cloudwatch.New returns a client
\*   "errPanic"  NewSession returns an error and a nil session, on which
\*               cloudwatch.New panics
newCloudWatchProvider(address, session) ==
    LET obj == [region     |-> Region(address),
                endpoint   |-> address,
                maxRetries |-> cloudWatchMaxRetries,
                session    |-> session = "ok"]
    IN  CASE session = "ok" -> Built(Ptr("cloudWatchProvider", obj), NilErr)
          [] session = "errClient" ->
                Built(Ptr("cloudWatchProvider", obj), Errorf("session", <<>>))
          [] session = "errPanic" -> BuildPanicked

\* json.Unmarshal([]byte(query), &cq) with cq a []*cloudwatch.MetricDataQuery:
\* [err, cq].  The query is
\*   malformed  not JSON
\*   null       the JSON null: cq stays nil
\*   scalar     a JSON number, string, boolean or object: not a slice
\*   array      a JSON array; each element is
\*                "object"     an object that fits MetricDataQuery
\*                "null"       the JSON null: a nil pointer
\*                "badobject"  an object with a member of the wrong type
\*                "scalar"     a number, string, boolean or array
ElementDecodes(e) == e \in {"object", "null"}

UnmarshalMetricDataQueries(q) ==
    CASE q.kind = "malformed" -> [err |-> TRUE, cq |-> <<>>]
      [] q.kind = "scalar"    -> [err |-> TRUE, cq |-> <<>>]
      [] q.kind = "null"      -> [err |-> FALSE, cq |-> <<>>]
      [] q.kind = "array"     ->
            IF \A i \in 1..Len(q.elems) : ElementDecodes(q.elems[i])
            THEN [err |-> FALSE, cq |-> q.elems]
            ELSE [err |-> TRUE, cq |-> <<>>]

\* The input RunQuery hands to GetMetricData.
MetricDataInput(cq) ==
    [EndTime |-> "nil", MaxDatapoints |-> 1, StartTime |-> "nil",
     MetricDataQueries |-> cq]

\* The backend called before the query is decoded.
RunQueryCallsBeforeDecoding(query) ==
    <<MetricDataInput(UnmarshalMetricDataQueries(query).cq)>>

\* The GetMetricData calls RunQuery makes for a query.
RunQueryCalls(query) ==
    LET u == UnmarshalMetricDataQueries(query)
    IN  IF u.err THEN <<>> ELSE <<MetricDataInput(u.cq)>>

\* cloudWatchProvider.RunQuery, given the outcome b of GetMetricData:
\* b.err, or the value lists b.results of MetricDataResults.
CloudWatchRunQuery(query, b) ==
    LET u == UnmarshalMetricDataQueries(query)
    IN  IF u.err
        THEN Returned(0, Errorf("error unmarshaling query: %s", <<"json">>))
        ELSE IF b.err
        THEN Returned(0, Errorf("error requesting cloudwatch: %s", <<"backend">>))
        ELSE IF Len(b.results) < 1
        THEN Returned(0, Errorf("no values found in response: %s", <<b.results>>))
        ELSE IF Len(b.results[1]) < 1
        THEN Returned(0, Errorf("no values found in response: %s", <<b.results>>))
        ELSE Returned(b.results[1][1], NilErr)

\* The input IsOnline hands to GetMetricData.
ProbeInput ==
    [EndTime |-> "zero", StartTime |-> "zero", MetricDataQueries |-> <<>>]

\* IsOnline that takes every client error (4xx) for a sign of life.
CloudWatchIsOnlineAnyClientError(e) ==
    IF e.kind = "none" THEN Returned(TRUE, NilErr)
    ELSE IF e.kind # "requestFailure"
    THEN Returned(FALSE, Errorf("unexpected error: %v", <<e>>))
    ELSE IF e.status \div 100 # StatusBadRequest \div 100
    THEN Returned(FALSE, Errorf("unexpected status code: %v", <<e>>))
    ELSE Returned(TRUE, NilErr)

\* cloudWatchProvider.IsOnline, given the outcome e of the probe:
\*   e.kind = "none"            GetMetricData returns no error
\*   e.kind = "requestFailure"  an awserr.RequestFailure with status e.status
\*   e.kind = "other"           an error of another type
CloudWatchIsOnline(e) ==
    IF e.kind = "none" THEN Returned(TRUE, NilErr)
    ELSE IF e.kind # "requestFailure"
    THEN Returned(FALSE, Errorf("unexpected error: %v", <<e>>))
    ELSE IF e.status # StatusBadRequest
    THEN Returned(FALSE, Errorf("unexpected status code: %v", <<e>>))
    ELSE Returned(TRUE, NilErr)

-----------------------------------------------------------------------------
(* factory.go *)

\* newPrometheusProvider is not part of the sources at hand: it returns a
\* client and no error, or an error and no client.
newPrometheusProvider(address, credentials, ok) ==
    IF ok
    THEN Built(Ptr("prometheusProvider", [address |-> address]), NilErr)
    ELSE Built(NilPtr("prometheusProvider"), Errorf("prometheus", <<>>))

\* The switch without its cloudwatch case.
ProviderConstructorWithoutCloudWatch(type) ==
    CASE type = "prometheus" -> "newPrometheusProvider"
      [] type = "datadog"    -> "newDatadogProvider"
      [] OTHER               -> "newPrometheusProvider"

\* The switch of Factory.Provider: the constructor each provider.Type gets.
ProviderConstructor(type) ==
    CASE type = "prometheus" -> "newPrometheusProvider"
      [] type = "datadog"    -> "newDatadogProvider"
      [] type = "cloudwatch" -> "newCloudWatchProvider"
      [] OTHER               -> "newPrometheusProvider"

\* The results of a constructor as the results (Interface, error) of
\* Factory.Provider.
AsInterface(r) ==
    IF r.outcome = "panic" THEN [outcome |-> "panic", client |-> NilInterface, err |-> NilErr]
    ELSE [outcome |-> "return", client |-> ToInterface(r.client), err |-> r.err]

\* Factory.Provider.  env holds what the environment decides: env.prom for
\* newPrometheusProvider and env.session for newCloudWatchProvider.
Provider(metricInterval, provider, credentials, env) ==
    LET c == ProviderConstructor(provider.Type)
    IN  CASE c = "newPrometheusProvider" ->
                AsInterface(newPrometheusProvider(provider.Address, credentials, env.prom))
          [] c = "newDatadogProvider" ->
                AsInterface(newDatadogProvider(metricInterval, provider.Address, credentials))
          [] c = "newCloudWatchProvider" ->
                AsInterface(newCloudWatchProvider(provider.Address, env.session))

\* The switch of the earlier copy of Factory.Provider, which has no
\* cloudwatch case.
LegacyProviderConstructor(type) ==
    CASE type = "prometheus" -> "NewPrometheusProvider"
      [] type = "datadog"    -> "NewDatadogProvider"
      [] OTHER               -> "NewPrometheusProvider"

\* The earlier copy of Factory.Provider.  Its constructors carry the
\* exported names and are not part of the sources at hand; they behave as
\* the constructors of the same backends above.
LegacyProvider(metricInterval, provider, credentials, env) ==
    LET c == LegacyProviderConstructor(provider.Type)
    IN  CASE c = "NewPrometheusProvider" ->
                AsInterface(newPrometheusProvider(provider.Address, credentials, env.prom))
          [] c = "NewDatadogProvider" ->
                AsInterface(newDatadogProvider(metricInterval, provider.Address, credentials))

-----------------------------------------------------------------------------
(* The inputs of the calls *)

MaxPoints == 2

MaxSeries == 2

MaxQueries == 2

MaxResults == 2

Types == {"prometheus", "datadog", "cloudwatch", "", "graphite", "Datadog"}

MetricIntervals ==
    { <<"1", "m">>, <<"3", "0", "s">>, <<"1", ".", "5", "s">>,
      <<"1", "5", "0", "m", "s">>, <<"-", "2", "s">>,
      <<"-", "2", "5", "0", "m", "s">>, <<"0">>, <<"1", "m", "3", "0", "s">>,
      <<".", "5", "s">>, <<"9", "9", "9", "u", "s">>,
      <<>>, <<"a", "b", "c">>, <<"1">>, <<"1", "x">>, <<"-">>, <<".", "s">> }

DatadogAddresses == {"", "https://dd.example.com", MalformedAddress}

CredKeys == {datadogAPIKeySecretKey, datadogApplicationKeySecretKey}

CredValues == {"", "k"}

\* The credentials maps: every choice of the Datadog keys, with or without
\* a key of another backend.
Credentials ==
    LET datadog == UNION {[S -> CredValues] : S \in SUBSET CredKeys}
    IN  datadog \cup {("username" :> "k") @@ m : m \in {c \in datadog : "" \notin {c[k] : k \in DOMAIN c}}}

\* The intervals and credentials the factory is called with.
FactoryIntervals ==
    { <<"1", "m">>, <<"1", ".", "5", "s">>, <<"a", "b", "c">>, <<>> }

FactoryCredentials ==
    {c \in Credentials : "" \notin {c[k] : k \in DOMAIN c} /\ "username" \notin DOMAIN c}

Regions ==
    { <<"u", "s", "-", "e", "a", "s", "t", "-", "1">>,
      <<"e", "u", "-", "w", "e", "s", "t", "-", "3">>,
      <<"m", "e", "-", "s", "o", "u", "t", "h", "-", "1">>,
      <<"i", "l", "-", "c", "e", "n", "t", "r", "a", "l", "-", "1">>,
      <<"u", "s", "-", "e", "a", "s", "t", "-", "1", "a">>,
      <<"n", "o", "r", "t", "h", "-", "z", "o", "n", "e", "-", "c">> }

CloudWatchAddresses ==
    {MonitoringPrefix \o r \o AmazonawsSuffix : r \in Regions}
        \cup {<<>>, <<"l", "o", "c", "a", "l", "h", "o", "s", "t">>}

Sessions == {"ok", "errClient", "errPanic"}

\* What the environment decides during a construction for this type.
Environments(type) ==
    IF type = "cloudwatch"
    THEN [prom : {TRUE}, session : Sessions]
    ELSE [prom : BOOLEAN, session : {"ok"}]

Queries == {"cpu", ""}

Clock == {1000}

\* The points of a pointlist: [timestamp, value], and shorter and longer ones.
Points == {<<>>, <<1>>, <<1, 2>>, <<2, 1>>, <<1, 2, 1>>}

Pointlists == SeqsUpTo(Points, MaxPoints)

\* The series after the first one.
OtherPointlists == {<<>>, <<<<2, 2>>>>}

SeriesLists ==
    {<<>>} \cup {<<first>> \o rest :
                    first \in Pointlists,
                    rest \in SeqsUpTo(OtherPointlists, MaxSeries - 1)}

ObjectBodies == {[kind |-> "object", has |-> TRUE, series |-> sl] : sl \in SeriesLists}

PlainBodies ==
    { [kind |-> "malformed"], [kind |-> "mismatch"], [kind |-> "null"],
      [kind |-> "object", has |-> FALSE, series |-> <<>>] }

Bodies == ObjectBodies \cup PlainBodies

Statuses == {200, 403, 500}

\* The outcomes of an HTTP exchange.
Exchanges(bodies) ==
    { [kind |-> "doErr"] }
        \cup {[kind |-> "readErr", status |-> st] : st \in Statuses}
        \cup {[kind |-> "resp", status |-> st, body |-> b] :
                 st \in Statuses, b \in bodies}

QueryExchanges ==
    Exchanges(PlainBodies)
        \cup {[kind |-> "resp", status |-> StatusOK, body |-> b] : b \in Bodies}

\* No exchange takes place when http.NewRequest rejects the endpoint.
Outcomes(endpoint, exchanges) ==
    IF URLParses(endpoint) THEN exchanges ELSE {[kind |-> "unsent"]}

ElementKinds == {"object", "null", "badobject", "scalar"}

CloudWatchQueries ==
    { [kind |-> "malformed"], [kind |-> "scalar"], [kind |-> "null"] }
        \cup {[kind |-> "array", elems |-> es] : es \in SeqsUpTo(ElementKinds, MaxQueries)}

ValueLists == {<<>>, <<1>>, <<2, 1>>}

MetricData ==
    { [err |-> TRUE, results |-> <<>>] }
        \cup {[err |-> FALSE, results |-> rs] : rs \in SeqsUpTo(ValueLists, MaxResults)}

ProbeStatuses == {400, 403, 404, 500}

Probes ==
    { [kind |-> "none"], [kind |-> "other"] }
        \cup {[kind |-> "requestFailure", status |-> st] : st \in ProbeStatuses}

\* The addresses a provider of this type is configured with.
AddressesOf(type) ==
    IF type = "cloudwatch" THEN CloudWatchAddresses ELSE DatadogAddresses

-----------------------------------------------------------------------------
(* The calls *)

\* The provider the caller holds after a construction: none when the
\* construction failed, the new one otherwise.
Held(r, p) == IF r.outcome = "return" /\ IsNilErr(r.err) THEN p ELSE NilPtr("none")

Constructions ==
    {"Provider", "LegacyProvider", "newDatadogProvider", "newCloudWatchProvider"}

Init ==
    /\ op = "none"
    /\ arg = [none |-> TRUE]
    /\ ret = [outcome |-> "none"]
    /\ client = NilPtr("none")
    /\ sent = <<>>

\* A caller constructs one provider and then runs a query or a health check
\* on it.
CallProvider ==
    /\ op = "none"
    /\ \E t \in Types, mi \in FactoryIntervals, cr \in FactoryCredentials :
      \E a \in AddressesOf(t), env \in Environments(t) :
        LET r == Provider(mi, [Type |-> t, Address |-> a], cr, env)
        IN  /\ op' = "Provider"
            /\ arg' = [metricInterval |-> mi, Type |-> t, Address |-> a,
                       credentials |-> cr, env |-> env]
            /\ ret' = r
            /\ client' = Held(r, r.client.ptr)
            /\ sent' = <<>>

CallLegacyProvider ==
    /\ op = "none"
    /\ \E t \in Types, mi \in FactoryIntervals, cr \in FactoryCredentials :
      \E a \in AddressesOf(t), env \in Environments(t) :
        LET r == LegacyProvider(mi, [Type |-> t, Address |-> a], cr, env)
        IN  /\ op' = "LegacyProvider"
            /\ arg' = [metricInterval |-> mi, Type |-> t, Address |-> a,
                       credentials |-> cr, env |-> env]
            /\ ret' = r
            /\ client' = Held(r, r.client.ptr)
            /\ sent' = <<>>

CallNewDatadogProvider ==
    /\ op = "none"
    /\ \E mi \in MetricIntervals, a \in DatadogAddresses, cr \in Credentials :
        LET r == newDatadogProvider(mi, a, cr)
        IN  /\ op' = "newDatadogProvider"
            /\ arg' = [metricInterval |-> mi, Address |-> a, credentials |-> cr]
            /\ ret' = r
            /\ client' = Held(r, r.client)
            /\ sent' = <<>>

CallNewCloudWatchProvider ==
    /\ op = "none"
    /\ \E a \in CloudWatchAddresses, se \in Sessions :
        LET r == newCloudWatchProvider(a, se)
        IN  /\ op' = "newCloudWatchProvider"
            /\ arg' = [Address |-> a, session |-> se]
            /\ ret' = r
            /\ client' = Held(r, r.client)
            /\ sent' = <<>>

CallDatadogRunQuery ==
    /\ op \in Constructions
    /\ client.type = "datadogProvider"
    /\ \E q \in Queries, now \in Clock,
          x \in Outcomes(client.obj.metricsQueryEndpoint, QueryExchanges) :
        /\ op' = "datadogProvider.RunQuery"
        /\ arg' = [query |-> q, exchange |-> x]
        /\ ret' = DatadogRunQuery(client.obj, q, x)
        /\ sent' = IF URLParses(client.obj.metricsQueryEndpoint)
                   THEN <<DatadogQueryRequest(client.obj, q, now)>>
                   ELSE <<>>
        /\ UNCHANGED client

CallDatadogIsOnline ==
    /\ op \in Constructions
    /\ client.type = "datadogProvider"
    /\ \E x \in Outcomes(client.obj.apiKeyValidationEndpoint, Exchanges(PlainBodies)) :
        /\ op' = "datadogProvider.IsOnline"
        /\ arg' = [exchange |-> x]
        /\ ret' = DatadogIsOnline(client.obj, x)
        /\ sent' = IF URLParses(client.obj.apiKeyValidationEndpoint)
                   THEN <<DatadogValidateRequest(client.obj)>>
                   ELSE <<>>
        /\ UNCHANGED client

CallCloudWatchRunQuery ==
    /\ op \in Constructions
    /\ client.type = "cloudWatchProvider"
    /\ \E q \in CloudWatchQueries, b \in MetricData :
        /\ op' = "cloudWatchProvider.RunQuery"
        /\ arg' = [query |-> q, backend |-> b]
        /\ ret' = CloudWatchRunQuery(q, b)
        /\ sent' = RunQueryCalls(q)
        /\ UNCHANGED client

CallCloudWatchIsOnline ==
    /\ op \in Constructions
    /\ client.type = "cloudWatchProvider"
    /\ \E e \in Probes :
        /\ op' = "cloudWatchProvider.IsOnline"
        /\ arg' = [probe |-> e]
        /\ ret' = CloudWatchIsOnline(e)
        /\ sent' = <<ProbeInput>>
        /\ UNCHANGED client

Next ==
    \/ CallProvider
    \/ CallLegacyProvider
    \/ CallNewDatadogProvider
    \/ CallNewCloudWatchProvider
    \/ CallDatadogRunQuery
    \/ CallDatadogIsOnline
    \/ CallCloudWatchRunQuery
    \/ CallCloudWatchIsOnline

Spec == Init /\ [][Next]_vars

-----------------------------------------------------------------------------
(* Properties *)

\* Some value the error formats into its text is the body b.
IncludesBody(e, b) == \E i \in 1..Len(e.args) : e.args[i] = b

DatadogCredentialsRequired ==
    (op = "newDatadogProvider" /\ ParseDuration(arg.metricInterval).ok) =>
        LET api == "datadog_api_key" \in DOMAIN arg.credentials
            app == "datadog_application_key" \in DOMAIN arg.credentials
        IN  /\ ret.outcome = "return"
            /\ (IsNilErr(ret.err) /\ ~ret.client.nil) <=> (api /\ app)
            /\ ~api => ret.err.args = <<"datadog_api_key">>
            /\ (api /\ ~app) => ret.err.args = <<"datadog_application_key">>

\* Construction has failed for credentials that hold the API key only.
DatadogCredentialsRequiredWitness ==
    /\ op = "newDatadogProvider"
    /\ ParseDuration(arg.metricInterval).ok
    /\ DOMAIN arg.credentials = {"datadog_api_key"}
    /\ ret.err.args = <<"datadog_application_key">>
    /\ ret.client.nil

BothKeys(credentials) ==
    {"datadog_api_key", "datadog_application_key"} \subseteq DOMAIN credentials

\* n is exactly ten times the length of d in seconds.
ExactlyTenTimesSeconds(n, d) ==
    \E q \in 0..9 :
        /\ d.nsec = q * 100000000
        /\ n = (IF d.neg THEN 0 - 1 ELSE 1) * (10 * d.sec + q)

\* n is ten times the length of d in seconds without its fraction: the
\* whole number next to the product on the side of zero.
TenTimesSecondsTruncated(n, d) ==
    \E q \in 0..9 :
        /\ q * 100000000 <= d.nsec
        /\ d.nsec < (q + 1) * 100000000
        /\ n = (IF d.neg THEN 0 - 1 ELSE 1) * (10 * d.sec + q)

\* C3 as it is stated: with both credentials, an interval that does not
\* parse gives an error and no client, and one that parses gives a client
\* whose fromDelta is exactly 10 times the seconds of the duration.
FromDeltaIsExactlyTenIntervals ==
    (op = "newDatadogProvider" /\ BothKeys(arg.credentials)) =>
        LET md == ParseDuration(arg.metricInterval)
        IN  /\ ~md.ok => (~IsNilErr(ret.err) /\ ret.client.nil)
            /\ md.ok => /\ IsNilErr(ret.err)
                        /\ ~ret.client.nil
                        /\ ExactlyTenTimesSeconds(ret.client.obj.fromDelta, md.d)

\* C3, amended: with both credentials, an interval that does not parse gives
\* an error and no client, and one that parses gives a client whose
\* fromDelta is 10 times the seconds of the duration with the fraction of
\* the product dropped (rounded towards zero).
FromDeltaIsTenIntervalsTruncated ==
    (op = "newDatadogProvider" /\ BothKeys(arg.credentials)) =>
        LET md == ParseDuration(arg.metricInterval)
        IN  /\ ~md.ok => (~IsNilErr(ret.err) /\ ret.client.nil)
            /\ md.ok => /\ IsNilErr(ret.err)
                        /\ ~ret.client.nil
                        /\ TenTimesSecondsTruncated(ret.client.obj.fromDelta, md.d)

\* A client has been built for a negative interval of which ten are not a
\* whole number of seconds.
FromDeltaIsTenIntervalsTruncatedWitness ==
    /\ op = "newDatadogProvider"
    /\ BothKeys(arg.credentials)
    /\ ParseDuration(arg.metricInterval).ok
    /\ ParseDuration(arg.metricInterval).d.neg
    /\ ParseDuration(arg.metricInterval).d.nsec % 100000000 # 0
    /\ ~ret.client.nil
    /\ ret.client.obj.fromDelta = 0 - 2

\* The call was a Datadog RunQuery that received a response with status 200.
QueryAnswered ==
    /\ op = "datadogProvider.RunQuery"
    /\ arg.exchange.kind = "resp"
    /\ arg.exchange.status = 200

\* The series list a body holds; none when the body is not an object.
SeriesIn(b) == IF b.kind = "object" /\ b.has THEN b.series ELSE <<>>

\* C4: Datadog RunQuery never panics; for a body of a 200 response that
\* decodes as JSON it returns a "no values found" error when the series list
\* is empty, and an error when the last point of the first series has fewer
\* than two elements or the first series has no points.
RunQueryNeverPanics ==
    /\ op = "datadogProvider.RunQuery" => ret.outcome = "return"
    /\ (QueryAnswered /\ arg.exchange.body.kind \in {"null", "object"}) =>
          LET sl == SeriesIn(arg.exchange.body)
          IN  /\ sl = <<>> =>
                    /\ ret.outcome = "return"
                    /\ ret.err.msg = "no values found in response: %s"
              /\ (sl # <<>> /\ (sl[1] = <<>> \/ Len(sl[1][Len(sl[1])]) < 2)) =>
                    /\ ret.outcome = "return"
                    /\ ~IsNilErr(ret.err)

\* C5: for a 200 response whose first series has points and whose last
\* point has at least two elements, RunQuery returns the second element of
\* the last point of the first series and no error.
RunQueryReturnsLastValue ==
    (QueryAnswered /\ SeriesIn(arg.exchange.body) # <<>>) =>
        LET first == SeriesIn(arg.exchange.body)[1]
        IN  (first # <<>> /\ Len(first[Len(first)]) >= 2) =>
                /\ ret.outcome = "return"
                /\ IsNilErr(ret.err)
                /\ ret.v = first[Len(first)][2]

\* RunQuery has returned the value of the last point of the first series,
\* which is neither the value of the first point nor that of another series.
RunQueryReturnsLastValueWitness ==
    /\ QueryAnswered
    /\ Len(SeriesIn(arg.exchange.body)) >= 2
    /\ Len(SeriesIn(arg.exchange.body)[1]) >= 2
    /\ SeriesIn(arg.exchange.body)[1][1] = <<1, 2>>
    /\ SeriesIn(arg.exchange.body)[1][Len(SeriesIn(arg.exchange.body)[1])] = <<2, 1>>
    /\ SeriesIn(arg.exchange.body)[2] = <<<<2, 2>>>>
    /\ IsNilErr(ret.err)
    /\ ret.v = 1

\* C6: for a response with a status other than 200, RunQuery returns 0 and
\* IsOnline returns false, each with an error whose text includes the
\* response body; IsOnline returns (true, nil) only for status 200.
Non200IsAnError ==
    /\ (op = "datadogProvider.RunQuery" /\ arg.exchange.kind = "resp"
            /\ arg.exchange.status # 200) =>
          /\ ret.outcome = "return"
          /\ ret.v = 0
          /\ ~IsNilErr(ret.err)
          /\ IncludesBody(ret.err, arg.exchange.body)
    /\ (op = "datadogProvider.IsOnline" /\ arg.exchange.kind = "resp"
            /\ arg.exchange.status # 200) =>
          /\ ret.outcome = "return"
          /\ ret.v = FALSE
          /\ ~IsNilErr(ret.err)
          /\ IncludesBody(ret.err, arg.exchange.body)
    /\ (op = "datadogProvider.IsOnline" /\ ret.v = TRUE /\ IsNilErr(ret.err)) =>
          /\ arg.exchange.kind = "resp"
          /\ arg.exchange.status = 200

\* IsOnline has answered a 403 response with false and an error that
\* includes the body.
Non200IsAnErrorWitness ==
    /\ op = "datadogProvider.IsOnline"
    /\ arg.exchange.kind = "resp"
    /\ arg.exchange.status = 403
    /\ ret.v = FALSE
    /\ IncludesBody(ret.err, arg.exchange.body)

\* C7: CloudWatch IsOnline returns (true, nil) for a probe without error and
\* for a request failure with status 400, and (false, err) for a request
\* failure with any other status and for an error of another type.
ProbeOutcomeMapped ==
    op = "cloudWatchProvider.IsOnline" =>
        LET e == arg.probe
            online == \/ e.kind = "none"
                      \/ (e.kind = "requestFailure" /\ e.status = 400)
        IN  /\ ret.outcome = "return"
            /\ online => (ret.v = TRUE /\ IsNilErr(ret.err))
            /\ ~online => (ret.v = FALSE /\ ~IsNilErr(ret.err))

\* IsOnline has answered a request failure of status 400 with (true, nil).
ProbeOutcomeMappedWitness ==
    /\ op = "cloudWatchProvider.IsOnline"
    /\ arg.probe.kind = "requestFailure"
    /\ arg.probe.status = 400
    /\ ret.v = TRUE
    /\ IsNilErr(ret.err)

\* The query is a JSON array of metric-data-query objects.
IsArrayOfQueryObjects(q) ==
    q.kind = "array" /\ \A i \in 1..Len(q.elems) : q.elems[i] = "object"

\* json.Unmarshal has no []*MetricDataQuery for the query: it is not JSON, or
\* a JSON value that is neither null nor an array, or an array with an
\* element that is neither null nor an object fitting MetricDataQuery.
IsUndecodable(q) ==
    \/ q.kind \in {"malformed", "scalar"}
    \/ q.kind = "array" /\ \E i \in 1..Len(q.elems) : q.elems[i] \in {"badobject", "scalar"}

DecodeFailed == ret.err.msg = "error unmarshaling query: %s"

\* C8 as it is stated: for a query that is not a JSON array of
\* metric-data-query objects RunQuery returns (0, decode error) and calls
\* GetMetricData zero times; for a query that decodes it calls it once.
NonArrayQueryIsRejected ==
    op = "cloudWatchProvider.RunQuery" =>
        /\ ~IsArrayOfQueryObjects(arg.query) =>
              (ret.v = 0 /\ DecodeFailed /\ Len(sent) = 0)
        /\ ~DecodeFailed => Len(sent) = 1

\* C8, amended: for a query that json.Unmarshal cannot decode RunQuery
\* returns (0, decode error) and calls GetMetricData zero times; for every
\* other query, the JSON null and arrays with null elements among them, it
\* calls GetMetricData exactly once.
UndecodableQueryIsRejected ==
    op = "cloudWatchProvider.RunQuery" =>
        /\ IsUndecodable(arg.query) =>
              (ret.v = 0 /\ DecodeFailed /\ Len(sent) = 0)
        /\ ~IsUndecodable(arg.query) => (~DecodeFailed /\ Len(sent) = 1)

\* RunQuery has rejected an array with an element of the wrong type without
\* a call to the backend.
UndecodableQueryIsRejectedWitness ==
    /\ op = "cloudWatchProvider.RunQuery"
    /\ arg.query.kind = "array"
    /\ IsUndecodable(arg.query)
    /\ ~arg.backend.err
    /\ DecodeFailed
    /\ sent = <<>>

\* The construction returned no instance: a nil pointer, or an interface
\* that holds none.
NoClient(c) ==
    IF "dyn" \in DOMAIN c THEN IsNilInterface(c) \/ c.ptr.nil ELSE c.nil

\* C9: whenever newDatadogProvider, newCloudWatchProvider or Factory.Provider
\* returns an error, it returns no client with it.
ConstructionFailsClosed ==
    (op \in {"Provider", "newDatadogProvider", "newCloudWatchProvider"}
        /\ ret.outcome = "return" /\ ~IsNilErr(ret.err)) => NoClient(ret.client)

\* C10: for the address "monitoring." + R + ".amazonaws.com",
\* newCloudWatchProvider takes exactly R for the region.
RegionIsDerived ==
    (op = "newCloudWatchProvider" /\ ret.outcome = "return") =>
        \A r \in Regions :
            arg.Address = MonitoringPrefix \o r \o AmazonawsSuffix =>
                ret.client.obj.region = r

====
